---------------------------- MODULE Spec2Model ----------------------------
(***************************************************************************)
(* A model of the Android ADB MCP server (src/android_adb_mcp_server/      *)
(* main.py): the bridge executor, the device resolver, and the tool        *)
(* dispatcher with its handlers, stepped at the handlers' await points;    *)
(* the path resolver and the package listing as unit specifications; the   *)
(* server from its construction; two overlapping clipboard captures.       *)
(*                                                                         *)
(* Representation of Python values:                                        *)
(*   - a text (str holding process output) is a sequence of lines, a line  *)
(*     a sequence of words; "" is the empty sequence <<>>;                 *)
(*   - a message (str built by an f-string) is a sequence of pieces, the   *)
(*     literal parts of the f-string and the interpolated values;          *)
(*   - the outcome of a call that may raise is [ok, val]: ok = TRUE with   *)
(*     the returned value, ok = FALSE with the exception's message.        *)
(***************************************************************************)
EXTENDS Integers, Sequences, FiniteSets, TLC

VARIABLES
    pc,         \* position of the invocation in its handler
    tool,       \* call_tool's name argument
    args,       \* call_tool's arguments: key -> value
    device_id,  \* the handler's local device_id
    locals,     \* the handler's other locals
    issued,     \* external interactions of the invocation, in order
    files,      \* paths that exist on disk and were written by the invocation
    result,     \* the text of the TextContent returned by call_tool
    exc,        \* the message of the exception the handler chain raised
    call,       \* unit specifications: the function called and its inputs
    ret,        \* unit specifications: what the call returned or raised
    clock,      \* overlapping invocations: the event loop's clock, in ms
    tasks,      \* overlapping invocations: each invocation's position and locals
    disk        \* overlapping invocations: the files in the temp directory

vars ==
    <<pc, tool, args, device_id, locals, issued, files, result, exc, call, ret,
      clock, tasks, disk>>

---------------------------------------------------------------------------
(* Bounds of the model. *)

\* Number of lines after the header in an `adb devices` output.
MaxDevices == 2
\* Number of lines in a process's error stream (unit specification of
\* execute_adb_command).
MaxErrLines == 2
\* Number of pieces in a path (unit specification of resolve_path).
MaxPathLen == 4
\* Number of lines in a `pm list packages` output (unit specification of
\* the package listing).
MaxListLines == 3
\* Milliseconds the clock goes on while two invocations overlap.
MaxClock == 2

---------------------------------------------------------------------------
(* Python values. *)

\* Python's None: an argument that is absent (dict.get returns None).
None == "<None>"
\* An argument value that is present and is not a str.
NotStr == "<int>"

isinstance_str(v) == v \notin {None, NotStr}

\* Python truthiness of an argument value: None and "" are falsy.
Truthy(v) == v \notin {None, ""}

Return(v) == [ok |-> TRUE, val |-> v]
Raise(msg) == [ok |-> FALSE, val |-> msg]

\* The concatenation of a sequence of sequences.
RECURSIVE Flatten(_)
Flatten(ss) == IF ss = <<>> THEN <<>> ELSE Head(ss) \o Flatten(Tail(ss))

\* All sequences over S of length at most n.
SeqUpTo(S, n) == UNION {[1..k -> S] : k \in 0..n}

\* str.strip() of a text: leading and trailing whitespace goes, so the
\* blank lines at both ends go.
RECURSIVE lstrip(_)
lstrip(t) == IF t # <<>> /\ Head(t) = <<>> THEN lstrip(Tail(t)) ELSE t

RECURSIVE rstrip(_)
rstrip(t) ==
    IF t # <<>> /\ t[Len(t)] = <<>> THEN rstrip(SubSeq(t, 1, Len(t) - 1)) ELSE t

strip(t) == rstrip(lstrip(t))

\* str.split('\n'): the lines of a text; "".split('\n') is [''].
split_lines(t) == IF t = <<>> THEN << <<>> >> ELSE t

---------------------------------------------------------------------------
(* execute_adb_command: the bridge executor. *)

\* The words of the model's error streams that contain the substring
\* "Warning" ("warning:" in lower case does not).
WarningWords == {"Warning:"}

\* `"Warning" in stderr_text`: a substring test on the whole text.
ContainsWarning(t) ==
    \E i \in DOMAIN t : \E j \in DOMAIN t[i] : t[i][j] \in WarningWords

\* A mutant: the device flag is put after the command.
FullCommand_FlagLast(command, dev) ==
    <<"adb">> \o command \o (IF Truthy(dev) THEN <<"-s", dev>> ELSE <<>>)

\* f"adb {device_flag}{command}" with device_flag = f"-s {device_id} " when
\* device_id is truthy and "" otherwise; command is a sequence of pieces.
FullCommand(command, dev) ==
    <<"adb">> \o (IF Truthy(dev) THEN <<"-s", dev>> ELSE <<>>) \o command

\* A mutant: a non-zero exit fails the call whenever stderr is not empty.
execute_adb_command_NoWarningRule(proc) ==
    IF proc.rc # 0 /\ strip(proc.stderr) # <<>>
    THEN Raise(<<"ADB command failed: ", "ADB command failed: ">>
               \o Flatten(strip(proc.stderr)))
    ELSE Return(strip(proc.stdout))

\* What execute_adb_command makes of the finished process proc =
\* [rc, stdout, stderr].  The exception raised inside the try block is
\* caught by the function's own except clause and wrapped once more.
execute_adb_command(proc) ==
    IF proc.rc # 0
       /\ strip(proc.stderr) # <<>>
       /\ ~ContainsWarning(strip(proc.stderr))
    THEN Raise(<<"ADB command failed: ", "ADB command failed: ">>
               \o Flatten(strip(proc.stderr)))
    ELSE Return(strip(proc.stdout))

IsBridgeError(r) == ~r.ok /\ r.val # <<>> /\ r.val[1] = "ADB command failed: "

---------------------------------------------------------------------------
(* get_connected_devices and validate_device_id: the device resolver. *)

\* The entries get_connected_devices builds from the output of
\* `adb devices`: the first line is skipped, and each line of at least two
\* words gives {"id": parts[0], "state": parts[1]}.
RECURSIVE ParseDeviceLines(_)
ParseDeviceLines(lines) ==
    IF lines = <<>> THEN <<>>
    ELSE LET parts == Head(lines)
             rest == ParseDeviceLines(Tail(lines))
         IN  IF Len(parts) >= 2
             THEN <<[id |-> parts[1], state |-> parts[2]]>> \o rest
             ELSE rest

get_connected_devices(output) == ParseDeviceLines(Tail(split_lines(output)))

NoDeviceMsg == <<"No Android devices connected">>
NotFoundMsg(hint) == <<"Device with ID \"", hint, "\" not found">>
AmbiguousMsg == <<"Multiple devices connected. Please specify a device ID">>

\* A mutant: the hint is compared with the first listed device only.
validate_device_id_FirstOnly(hint, devices) ==
    IF devices = <<>> THEN Raise(NoDeviceMsg)
    ELSE IF Truthy(hint)
         THEN IF devices[1].id = hint THEN Return(hint)
              ELSE Raise(NotFoundMsg(hint))
         ELSE IF Len(devices) > 1 THEN Raise(AmbiguousMsg)
              ELSE Return(devices[1].id)

\* A mutant: more than one device is not an error, the first is taken.
validate_device_id_TakesFirst(hint, devices) ==
    IF devices = <<>> THEN Raise(NoDeviceMsg)
    ELSE IF Truthy(hint)
         THEN IF \E i \in DOMAIN devices : devices[i].id = hint
              THEN Return(hint)
              ELSE Raise(NotFoundMsg(hint))
         ELSE Return(devices[1].id)

\* validate_device_id once get_connected_devices has returned `devices`.
validate_device_id(hint, devices) ==
    IF devices = <<>> THEN Raise(NoDeviceMsg)
    ELSE IF Truthy(hint)
         THEN IF \E i \in DOMAIN devices : devices[i].id = hint
              THEN Return(hint)
              ELSE Raise(NotFoundMsg(hint))
         ELSE IF Len(devices) > 1 THEN Raise(AmbiguousMsg)
              ELSE Return(devices[1].id)

IsNoDeviceError(r) == ~r.ok /\ r.val = NoDeviceMsg
IsDeviceNotFoundError(r, hint) == ~r.ok /\ r.val = NotFoundMsg(hint)
IsAmbiguousDeviceError(r) == ~r.ok /\ r.val = AmbiguousMsg

---------------------------------------------------------------------------
(* Unit specification of the device resolver: validate_device_id called    *)
(* with any hint (None included) against any output of `adb devices`.      *)

\* The handlers' locals before any is assigned: the primary action's output,
\* the first launch attempt's exception, how each launch attempt ended
\* (l1: ok, fail; l2: ok, fail, no_component, query_failed), the component
\* extracted, the resolved output path, the capture path and the format,
\* and how the primary action, the capture and the conversion ended.
NoLocals ==
    [out |-> <<>>, e |-> <<>>, l1 |-> None, l2 |-> None, activity |-> None,
     path |-> <<>>, png |-> <<>>, fmt |-> None,
     primary |-> None, cap |-> None, conv |-> None]

\* No exception was raised.
NoExc == [raised |-> FALSE, msg |-> <<>>]

\* The state of the dispatcher while no invocation is in flight.
Idle ==
    /\ pc = "idle"
    /\ tool = None
    /\ args = None
    /\ device_id = None
    /\ locals = NoLocals
    /\ issued = <<>>
    /\ files = {}
    /\ result = <<>>
    /\ exc = NoExc

NoCall == [fn |-> None]

MainVars == <<pc, tool, args, device_id, locals, issued, files, result, exc>>

\* The variables of the specification of overlapping invocations.
ConcVars == <<clock, tasks, disk>>

\* No invocation of the specification of overlapping invocations has begun.
NoTasks ==
    [i \in {1, 2} |->
        [pc |-> "idle", fmt |-> None, path |-> <<>>, png |-> <<>>,
         foreign |-> FALSE, result |-> <<>>]]

\* The server after construction: no invocation, no unit call.
Init ==
    /\ Idle /\ call = NoCall /\ ret = None
    /\ clock = 0 /\ tasks = NoTasks /\ disk = {}

\* The unit call returns to its caller.
UnitReturn ==
    /\ call # NoCall
    /\ call' = NoCall
    /\ ret' = None
    /\ UNCHANGED <<MainVars, ConcVars>>

\* Hints: absent, empty, two listed identifiers, and one that differs from
\* a listed identifier in case only.
Hints == {None, "", "d1", "d2", "D1"}

\* Lines of an `adb devices` output after the header: devices in several
\* states, a blank line, a line of one word.
DeviceLines == {<<"d1", "device">>, <<"d2", "offline">>, <<>>, <<"d2">>}

DevicesHeader == <<"List", "of", "devices", "attached">>

DevicesStdouts ==
    {<<>>} \cup {<<DevicesHeader>> \o ls : ls \in SeqUpTo(DeviceLines, MaxDevices)}

PermissionDenied == << <<"permission", "denied">> >>

DevicesProcs ==
    [rc : {0, 1}, stdout : DevicesStdouts, stderr : {<<>>, PermissionDenied}]

\* validate_device_id from its first line: the device list is queried with
\* execute_adb_command("devices"), whose failure propagates.
Resolve(hint, proc) ==
    LET out == execute_adb_command(proc)
    IN  IF ~out.ok THEN out
        ELSE validate_device_id(hint, get_connected_devices(out.val))

ResolveCall ==
    /\ call = NoCall
    /\ \E hint \in Hints, proc \in DevicesProcs :
         /\ call' = [fn |-> "validate_device_id", hint |-> hint, proc |-> proc,
                     listed |-> execute_adb_command(proc).ok,
                     devices |-> IF execute_adb_command(proc).ok
                                 THEN get_connected_devices(
                                          execute_adb_command(proc).val)
                                 ELSE <<>>]
         /\ ret' = Resolve(hint, proc)
    /\ UNCHANGED <<MainVars, ConcVars>>

NextResolve == ResolveCall \/ UnitReturn

SpecResolve == Init /\ [][NextResolve]_vars

Resolved == call.fn = "validate_device_id" /\ call.listed

HintListed == \E i \in DOMAIN call.devices : call.devices[i].id = call.hint

\* C7 as stated: with a hint given (any str, the empty one included), an
\* empty list fails with NoDeviceError, a non-empty list returns the hint
\* exactly when it is listed and fails with DeviceNotFoundError otherwise,
\* and AmbiguousDeviceError never happens.
C7_AnyHint ==
    (Resolved /\ call.hint # None) =>
        /\ call.devices = <<>> => IsNoDeviceError(ret)
        /\ call.devices # <<>> =>
             /\ (ret = Return(call.hint)) <=> HintListed
             /\ ~HintListed => IsDeviceNotFoundError(ret, call.hint)
        /\ ~IsAmbiguousDeviceError(ret)

\* C7 amended: the same for every non-empty hint; validate_device_id takes
\* the empty hint for no hint.
C7_NonEmptyHint ==
    (Resolved /\ Truthy(call.hint)) =>
        /\ call.devices = <<>> => IsNoDeviceError(ret)
        /\ call.devices # <<>> =>
             /\ (ret = Return(call.hint)) <=> HintListed
             /\ ~HintListed => IsDeviceNotFoundError(ret, call.hint)
        /\ ~IsAmbiguousDeviceError(ret)

\* A hint listed second among two devices is returned unchanged.
C7_Witness ==
    /\ Resolved /\ call.hint = "d2"
    /\ Len(call.devices) = 2 /\ call.devices[1].id = "d1"
    /\ ret = Return("d2")

\* C8: with no hint, validate_device_id fails with NoDeviceError on an empty
\* list, returns the sole entry's identifier on a list of one, and fails
\* with AmbiguousDeviceError on a list of two or more.
C8_NoHint ==
    (Resolved /\ call.hint = None) =>
        /\ call.devices = <<>> => IsNoDeviceError(ret)
        /\ Len(call.devices) = 1 => ret = Return(call.devices[1].id)
        /\ Len(call.devices) >= 2 => IsAmbiguousDeviceError(ret)

C8_Witness ==
    /\ Resolved /\ call.hint = None
    /\ Len(call.devices) >= 2 /\ IsAmbiguousDeviceError(ret)

---------------------------------------------------------------------------
(* Unit specification of the bridge executor: execute_adb_command against  *)
(* any finished process.                                                   *)

ErrLines ==
    {<<>>, <<"Warning:", "deprecated", "flag">>, <<"permission", "denied">>,
     <<"warning:", "lowercase">>}

ExecStdouts == {<<>>, << <<"ok">> >>, << <<>>, <<"ok">>, <<>> >>}

ExecProcs ==
    [rc : {0, 1}, stdout : ExecStdouts, stderr : SeqUpTo(ErrLines, MaxErrLines)]

ExecuteCall ==
    /\ call = NoCall
    /\ \E proc \in ExecProcs :
         /\ call' = [fn |-> "execute_adb_command", proc |-> proc]
         /\ ret' = execute_adb_command(proc)
    /\ UNCHANGED <<MainVars, ConcVars>>

NextExecute == ExecuteCall \/ UnitReturn

SpecExecute == Init /\ [][NextExecute]_vars

Executed == call.fn = "execute_adb_command"

LineHasWarning(line) == \E j \in DOMAIN line : line[j] \in WarningWords

\* stderr holds text, and every line of it that is not blank has "Warning".
OnlyWarnings(t) ==
    /\ strip(t) # <<>>
    /\ \A i \in DOMAIN t : t[i] # <<>> => LineHasWarning(t[i])

\* stderr holds text and no "Warning" anywhere.
NoWarnings(t) ==
    /\ strip(t) # <<>>
    /\ \A i \in DOMAIN t : ~LineHasWarning(t[i])

\* stderr holds a line that is not blank and has no "Warning".
HasRealError(t) == \E i \in DOMAIN t : t[i] # <<>> /\ ~LineHasWarning(t[i])

\* C9: with a non-zero exit, a stderr of warnings only does not raise and
\* the trimmed stdout is returned, a stderr with text and no "Warning"
\* raises BridgeError; with a zero exit the call never fails.
C9_WarningTolerance ==
    Executed =>
        /\ (call.proc.rc # 0 /\ OnlyWarnings(call.proc.stderr)) =>
               ret = Return(strip(call.proc.stdout))
        /\ (call.proc.rc # 0 /\ NoWarnings(call.proc.stderr)) =>
               IsBridgeError(ret)
        /\ call.proc.rc = 0 => ret.ok

C9_Witness ==
    /\ Executed /\ call.proc.rc # 0
    /\ call.proc.stderr = << <<"Warning:", "deprecated", "flag">> >>
    /\ call.proc.stdout = << <<>>, <<"ok">>, <<>> >>
    /\ ret = Return(<< <<"ok">> >>)

\* C10: a non-zero exit whose stderr has a non-blank line without
\* "Warning" fails with BridgeError, whatever the other lines hold.
C10_LinewiseTolerance ==
    (Executed /\ call.proc.rc # 0 /\ HasRealError(call.proc.stderr)) =>
        IsBridgeError(ret)

---------------------------------------------------------------------------
(* The tool dispatcher: tools, argument bags, paths.                       *)

ToolNames ==
    {"adb_devices", "adb_shell", "adb_install", "adb_uninstall",
     "adb_list_packages", "adb_pull", "adb_push", "launch_app",
     "take_screenshot_and_save", "take_screenshot_and_copy_to_clipboard",
     "clear_app_data", "force_stop_app", "go_to_home", "open_settings",
     "clear_cache_and_restart", "force_restart_app"}

\* list_tools: the names of the tools in the order they are listed.
ToolList ==
    <<"adb_devices", "adb_shell", "adb_install", "adb_uninstall",
      "adb_list_packages", "adb_pull", "adb_push", "launch_app",
      "take_screenshot_and_save", "take_screenshot_and_copy_to_clipboard",
      "clear_app_data", "force_stop_app", "go_to_home", "open_settings",
      "clear_cache_and_restart", "force_restart_app">>

UnknownTool == "no_such_tool"

RestartTools == {"clear_cache_and_restart", "force_restart_app"}

\* The handlers that issue one bridge command and return its output.
SimpleTools ==
    {"adb_shell", "adb_install", "adb_uninstall", "adb_list_packages",
     "clear_app_data", "force_stop_app", "go_to_home", "open_settings"}

\* list_tools: the "required" list of each tool's inputSchema.
SchemaRequired(t) ==
    CASE t = "adb_shell" -> {"command"}
      [] t = "adb_install" -> {"path"}
      [] t \in {"adb_uninstall", "launch_app", "clear_app_data",
                "force_stop_app", "clear_cache_and_restart",
                "force_restart_app"} -> {"package_name"}
      [] t \in {"adb_pull", "adb_push"} -> {"remote_path", "local_path"}
      [] t = "take_screenshot_and_save" -> {"output_path"}
      [] t \in {"adb_devices", "adb_list_packages",
                "take_screenshot_and_copy_to_clipboard", "go_to_home",
                "open_settings"} -> {}

\* A mutant: go_to_home and open_settings test their device_id as the other
\* handlers test their required arguments.
RequiredArgs_DeviceRequired(t) ==
    IF t \in {"go_to_home", "open_settings"} THEN {"device_id"}
    ELSE IF t \in ToolNames THEN SchemaRequired(t) ELSE {}

\* The arguments each handler tests with isinstance(args.get(k), str).
RequiredArgs(t) ==
    CASE t = "adb_shell" -> {"command"}
      [] t = "adb_install" -> {"path"}
      [] t \in {"adb_uninstall", "launch_app", "clear_app_data",
                "force_stop_app", "clear_cache_and_restart",
                "force_restart_app"} -> {"package_name"}
      [] t \in {"adb_pull", "adb_push"} -> {"remote_path", "local_path"}
      [] t = "take_screenshot_and_save" -> {"output_path"}
      [] OTHER -> {}

\* The arguments a handler reads besides the required ones.
OptionalArgs(t) ==
    CASE t \in {"adb_devices", UnknownTool} -> {}
      [] t = "adb_list_packages" -> {"device_id", "filter"}
      [] t \in {"take_screenshot_and_save",
                "take_screenshot_and_copy_to_clipboard"} ->
             {"device_id", "format"}
      [] OTHER -> {"device_id"}

\* Values of the path arguments.
PathArgs == {"shot.png", "shot", "shot.jpg", "pics.png/shot.png", "/abs/shot.png"}

\* Values of the format argument: absent, lower and upper case, not a str.
FormatArgs == {None, "png", "jpg", "JPG", NotStr}

ArgValues(k) ==
    CASE k = "device_id" -> Hints
      [] k = "format" -> FormatArgs
      [] k = "filter" -> {None, "chrome"}
      [] k = "output_path" -> {None, NotStr} \cup PathArgs
      [] k = "local_path" -> {None, NotStr, "shot.png"}
      [] k = "remote_path" -> {None, NotStr, "/sdcard/shot.png"}
      [] k = "package_name" -> {None, NotStr, "com.example.app"}
      [] k = "path" -> {None, NotStr, "app.apk"}
      [] k = "command" -> {None, NotStr, "ls"}

\* The values of key k in a call of tool t: a key the handler does not read
\* is absent.
ArgValuesOf(t, k) ==
    IF k \in RequiredArgs(t) \cup OptionalArgs(t) THEN ArgValues(k) ELSE {None}

\* The argument bags a tool is called with.
ArgBags(t) ==
    [command : ArgValuesOf(t, "command"),
     path : ArgValuesOf(t, "path"),
     package_name : ArgValuesOf(t, "package_name"),
     remote_path : ArgValuesOf(t, "remote_path"),
     local_path : ArgValuesOf(t, "local_path"),
     output_path : ArgValuesOf(t, "output_path"),
     device_id : ArgValuesOf(t, "device_id"),
     filter : ArgValuesOf(t, "filter"),
     format : ArgValuesOf(t, "format")]

\* A mutant: the handlers test that the required arguments are present, not
\* that they are strings.
ArgsValid_PresenceOnly(t, a) == \A k \in RequiredArgs(t) : a[k] # None

\* The isinstance tests a handler starts with.
ArgsValid(t, a) == \A k \in RequiredArgs(t) : isinstance_str(a[k])

InvalidParams(t) ==
    CASE t = "adb_shell" ->
             <<"Invalid parameters: command is required and must be a string">>
      [] t = "adb_install" ->
             <<"Invalid parameters: path is required and must be a string">>
      [] t = "adb_pull" ->
             <<"Invalid parameters: remote_path and local_path are required and must be strings">>
      [] t = "adb_push" ->
             <<"Invalid parameters: local_path and remote_path are required and must be strings">>
      [] t = "take_screenshot_and_save" ->
             <<"Invalid parameters: output_path is required and must be a string">>
      [] OTHER ->
             <<"Invalid parameters: package_name is required and must be a string">>

\* A path is a sequence of pieces: "/" and "~" are pieces of their own, and
\* so is each extension.
PathPieces(p) ==
    CASE p = "shot.png" -> <<"shot", ".png">>
      [] p = "shot" -> <<"shot">>
      [] p = "shot.jpg" -> <<"shot", ".jpg">>
      [] p = "pics.png/shot.png" -> <<"pics", ".png", "/", "shot", ".png">>
      [] p = "/abs/shot.png" -> <<"/", "abs", "/", "shot", ".png">>
      [] p = "~/shot.png" -> <<"~", "/", "shot", ".png">>
      [] p = "~" -> <<"~">>
      [] OTHER -> <<p>>

\* Path.home()
Home == <<"/", "home", "/", "user">>

\* tempfile.gettempdir()
TempDir == <<"/", "tmp">>

\* The runs of pieces between the "/" pieces of a path, the empty runs
\* included (str.split("/")).
RECURSIVE split_slash(_)
split_slash(p) ==
    IF \A i \in DOMAIN p : p[i] # "/" THEN <<p>>
    ELSE LET i == CHOOSE k \in DOMAIN p :
                      p[k] = "/" /\ \A j \in 1..(k - 1) : p[j] # "/"
         IN  <<SubSeq(p, 1, i - 1)>> \o split_slash(SubSeq(p, i + 1, Len(p)))

\* "/".join(parts)
RECURSIVE join_slash(_)
join_slash(cs) ==
    IF cs = <<>> THEN <<>>
    ELSE IF Len(cs) = 1 THEN cs[1]
    ELSE cs[1] \o <<"/">> \o join_slash(Tail(cs))

\* The number of "/" pieces a path starts with.
LeadingSlashes(p) ==
    Cardinality({i \in DOMAIN p : \A j \in 1..i : p[j] = "/"})

\* PurePosixPath's root: "/" for one leading slash or more than two, "//"
\* for exactly two, none for a relative path.
root(p) ==
    CASE LeadingSlashes(p) = 0 -> <<>>
      [] LeadingSlashes(p) = 2 -> <<"/", "/">>
      [] OTHER -> <<"/">>

\* PurePosixPath's parts after the root: empty components (repeated and
\* trailing slashes) and "." components are dropped, ".." is kept.
parts(p) == SelectSeq(split_slash(p), LAMBDA c : c # <<>> /\ c # <<".">>)

\* Path.is_absolute()
is_absolute(p) == root(p) # <<>>

\* str(Path(p)): the root and the parts joined, "." for no root and no part.
str_Path(p) ==
    IF root(p) = <<>> /\ parts(p) = <<>> THEN <<".">>
    ELSE root(p) \o join_slash(parts(p))

\* Path.home() / x for a relative x
home_joined(x) == str_Path(Home \o <<"/">> \o x)

\* A mutant: a relative path is left to the working directory.
resolve_path_Cwd(p) ==
    IF is_absolute(p) THEN str_Path(p)
    ELSE IF str_Path(p) = <<"~">>
            \/ (Len(str_Path(p)) >= 2 /\ SubSeq(str_Path(p), 1, 2) = <<"~", "/">>)
         THEN home_joined(SubSeq(str_Path(p), 3, Len(str_Path(p))))
         ELSE str_Path(p)

\* resolve_path: path = Path(file_path); an absolute path gives str(path),
\* "~" and "~/rest" give the home directory joined with str(path)[2:], any
\* other path is joined to the home directory.
resolve_path(p) ==
    LET path == str_Path(p)
    IN  IF is_absolute(p) THEN path
        ELSE IF path = <<"~">>
                \/ (Len(path) >= 2 /\ SubSeq(path, 1, 2) = <<"~", "/">>)
             THEN home_joined(SubSeq(path, 3, Len(path)))
             ELSE home_joined(path)

\* os.path.dirname of an absolute path: what precedes the last "/".
dirname(p) ==
    LET last == CHOOSE i \in DOMAIN p :
                    p[i] = "/" /\ \A j \in DOMAIN p : p[j] = "/" => j <= i
    IN  IF last = 1 THEN <<"/">> ELSE SubSeq(p, 1, last - 1)

\* str.lower() of a format name.
lower(f) == IF f = "JPG" THEN "jpg" ELSE IF f = "PNG" THEN "png" ELSE f

\* get_file_extension: f".{format_name.lower()}"
get_file_extension(f) ==
    CASE lower(f) = "png" -> ".png"
      [] lower(f) = "jpg" -> ".jpg"

\* str.replace(old, new): every occurrence of the piece old becomes new.
replace(p, old, new) == [i \in DOMAIN p |-> IF p[i] = old THEN new ELSE p[i]]

\* create_temp_file_path: the milliseconds of the event loop's clock make
\* the name.
create_temp_file_path(f, ms) ==
    TempDir \o <<"/", "adb-screenshot-", ms, get_file_extension(f)>>

---------------------------------------------------------------------------
(* Unit specification of the path resolver: resolve_path called with any   *)
(* path of up to MaxPathLen pieces.                                        *)

\* The pieces of the paths: the separator, the home shorthand, the dot
\* names, a file name, and a file name that starts with "~".
PathAlphabet == {"/", "~", ".", "..", "x", "~x"}

\* Every component of the path is one piece, so that a string has one
\* sequence of pieces.
OnePieceComponents(p) ==
    \A i \in 1..(Len(p) - 1) : p[i] = "/" \/ p[i + 1] = "/"

PathInputs == {p \in SeqUpTo(PathAlphabet, MaxPathLen) : OnePieceComponents(p)}

ResolvePathCall ==
    /\ call = NoCall
    /\ \E p \in PathInputs :
         /\ call' = [fn |-> "resolve_path", file_path |-> p]
         /\ ret' = resolve_path(p)
    /\ UNCHANGED <<MainVars, ConcVars>>

NextPath == ResolvePathCall \/ UnitReturn

SpecPath == Init /\ [][NextPath]_vars

---------------------------------------------------------------------------
(* The tool dispatcher: external interactions and their outcomes.          *)

\* A bridge command run by execute_adb_command.
AdbEvent(command, dev) ==
    [kind |-> "adb", cmd |-> FullCommand(command, dev), target |-> <<>>]

\* The screen capture, run by the handler itself with its output redirected
\* to the file `path`.
CaptureEvent(dev, path) ==
    [kind |-> "adb", cmd |-> FullCommand(<<"exec-out screencap -p >">>, dev),
     target |-> path]

\* asyncio.sleep(1)
SleepEvent == [kind |-> "sleep", cmd |-> <<"1">>, target |-> <<>>]

\* os.makedirs and the write test of is_directory_writable.
FsEvent(what, path) == [kind |-> "fs", cmd |-> <<what>>, target |-> path]

DevicesQuery == AdbEvent(<<"devices">>, None)

WarningOnly == << <<"Warning:", "deprecated", "flag">> >>

CmdStdouts == {<<>>, << <<"Success">> >>}

\* Finished processes of the bridge commands of the handlers.
CmdProcs ==
    [rc : {0, 1}, stdout : CmdStdouts,
     stderr : {<<>>, WarningOnly, PermissionDenied}]

\* Outputs of `pm list packages`: a line is a sequence of pieces.
ListStdouts ==
    {<<>>,
     << <<"package:", "com.android.", "Chrome">>,
        <<"package:", "com.example.app">>,
        <<"WARNING:", "linker">> >>}

ListProcs ==
    [rc : {0, 1}, stdout : ListStdouts, stderr : {<<>>, PermissionDenied}]

\* Outputs of `dumpsys package <p> | grep -A 1 "android.intent.action.MAIN"`.
DumpsysStdouts ==
    {<<>>,
     << <<"android.intent.action.MAIN:">> >>,
     << <<"android.intent.action.MAIN:">>,
        <<"1a2b3c", "com.example.app/.MainActivity", "filter", "4d5e6f">> >>,
     << <<"Activity{com.example.app/.Main}">>, <<"other/.Second">> >>}

DumpsysProcs ==
    [rc : {0, 1}, stdout : DumpsysStdouts, stderr : {<<>>, PermissionDenied}]

\* What the pattern ([a-zA-Z0-9_.]+/[a-zA-Z0-9_.]+) matches in a word of the
\* model's dumpsys outputs.
ComponentIn(word) ==
    CASE word = "com.example.app/.MainActivity" -> word
      [] word = "Activity{com.example.app/.Main}" -> "com.example.app/.Main"
      [] word = "other/.Second" -> word
      [] OTHER -> None

\* re.search(pattern, package_info): the first match in the text, or None.
re_search(text) ==
    LET words == Flatten(text)
        hits == {i \in DOMAIN words : ComponentIn(words[i]) # None}
    IN  IF hits = {} THEN None
        ELSE ComponentIn(words[CHOOSE i \in hits : \A j \in hits : i <= j])

\* The end of the screen capture process: its exit status, and whether the
\* shell's redirection created the file (it does before the bridge runs; a
\* redirection that fails makes the exit status non-zero).
CaptureOutcomes ==
    {[rc |-> 0, created |-> TRUE], [rc |-> 1, created |-> TRUE],
     [rc |-> 1, created |-> FALSE]}

\* convert_image_format: the image is saved, or Image.open fails and nothing
\* is written, or img.save fails after it created the output file.
ConvertOutcomes == {"ok", "fails", "fails_partial"}

\* Path preparation: os.makedirs fails, is_directory_writable returns False,
\* or the directory is writable.
DirOutcomes == {"makedirs_fails", "not_writable", "writable"}

Platforms == {"darwin", "win32", "linux", "other"}

\* copy_image_to_clipboard: create_subprocess_shell is called with
\* check=True, a keyword subprocess.Popen does not take, so the call raises
\* TypeError before any process starts; on another platform the function
\* raises by itself.  Either is caught and raised again.
\* Besides [ok, val], `started` has the processes the call started: none.
copy_image_to_clipboard(platform) ==
    IF platform \in {"darwin", "win32", "linux"}
    THEN [ok |-> FALSE,
          val |-> <<"Failed to copy image to clipboard: ",
                    "Popen.__init__() got an unexpected keyword argument 'check'">>,
          started |-> <<>>]
    ELSE [ok |-> FALSE,
          val |-> <<"Failed to copy image to clipboard: ",
                    "Clipboard operations not supported on platform: ",
                    platform>>,
          started |-> <<>>]

\* The commands of the handlers.
Commands(t, a) ==
    CASE t = "adb_shell" -> {<<"shell ", a.command>>}
      [] t = "adb_install" ->
             {<<"install ", a.path>>, <<"install-multiple ", a.path>>}
      [] t = "adb_uninstall" -> {<<"uninstall ", a.package_name>>}
      [] t = "adb_list_packages" -> {<<"shell pm list packages">>}
      [] t \in {"clear_app_data", "clear_cache_and_restart"} ->
             {<<"shell pm clear ", a.package_name>>}
      [] t \in {"force_stop_app", "force_restart_app"} ->
             {<<"shell am force-stop ", a.package_name>>}
      [] t = "go_to_home" -> {<<"shell input keyevent KEYCODE_HOME">>}
      [] t = "open_settings" ->
             {<<"shell am start -a android.settings.SETTINGS">>}
      [] t = "adb_pull" -> {<<"pull ", a.remote_path>>}
      [] t = "adb_push" -> {<<"push ", a.remote_path>>}

MonkeyCommand(pkg) ==
    <<"shell monkey -p ", pkg, " -c android.intent.category.LAUNCHER 1">>

DumpsysCommand(pkg) ==
    <<"shell dumpsys package ", pkg,
      " | grep -A 1 \"android.intent.action.MAIN\"">>

AmStartCommand(activity) == <<"shell am start -n ", activity>>

HomeHint == ". Try using an absolute path or a path in your home directory."

\* str.lower() of a piece of a package name.
lower_piece(w) == IF w \in {"Chrome", "CHROME"} THEN "chrome" ELSE w

\* A mutant: the filter is compared as it is written.
list_packages_CaseSensitive(out, filter) ==
    LET IsPackage(line) == line # <<>> /\ line[1] = "package:"
        Name(line) == SelectSeq(line, LAMBDA w : w # "package:")
        lines == SelectSeq(split_lines(out), IsPackage)
        packages == [i \in DOMAIN lines |-> Name(lines[i])]
        Matches(pkg) == \E j \in DOMAIN pkg : pkg[j] = filter
    IN  IF Truthy(filter) THEN SelectSeq(packages, Matches) ELSE packages

\* handle_adb_list_packages: the lines that start with "package:", with
\* every "package:" removed, then those that contain the filter in lower
\* case.
list_packages(out, filter) ==
    LET IsPackage(line) == line # <<>> /\ line[1] = "package:"
        Name(line) == SelectSeq(line, LAMBDA w : w # "package:")
        lines == SelectSeq(split_lines(out), IsPackage)
        packages == [i \in DOMAIN lines |-> Name(lines[i])]
        Matches(pkg) ==
            \E j \in DOMAIN pkg : lower_piece(pkg[j]) = lower_piece(filter)
    IN  IF Truthy(filter) THEN SelectSeq(packages, Matches) ELSE packages

\* The text a handler of one bridge command returns for its output.
SuccessText(t, a, out) ==
    CASE t = "adb_list_packages" ->
             <<"[">> \o Flatten(list_packages(out, a.filter)) \o <<"]">>
      [] t = "clear_app_data" ->
             <<"App data cleared for ", a.package_name, "\n">> \o Flatten(out)
      [] t = "force_stop_app" ->
             <<"App force stopped: ", a.package_name, "\n">> \o Flatten(out)
      [] t = "go_to_home" -> <<"Navigated to home screen\n">> \o Flatten(out)
      [] t = "open_settings" -> <<"Settings app opened\n">> \o Flatten(out)
      [] t = "adb_pull" ->
             <<"File pulled successfully to: ">>
             \o resolve_path(PathPieces(a.local_path)) \o <<"\n">>
             \o Flatten(out)
      [] OTHER -> Flatten(out)

\* The text the restart handlers return.
RestartText(t, pkg, out, start) ==
    IF t = "clear_cache_and_restart"
    THEN <<"App data cleared and restarted: ", pkg, "\nClear: ">>
         \o Flatten(out) \o <<"\nStart: ">> \o start
    ELSE <<"App force restarted: ", pkg, "\nStop: ">>
         \o Flatten(out) \o <<"\nStart: ">> \o start

CouldNotDetermine == "Could not determine main activity to restart"
FailedToRestart == "Failed to restart app: "

\* A mutant: the restart handlers raise when the relaunch fails, as
\* launch_app does.
relaunch_failed_Escalates(t, e, note) == Raise(<<"Failed to launch app: ">> \o e)

\* A mutant: launch_app reports the failed relaunch in a returned text, as
\* the restart handlers do.
relaunch_failed_Swallows(t, e, note) == Return(note)

\* The end of the launch chain when no attempt succeeded: e is the first
\* attempt's exception, note the start_output the restart handlers report.
\* launch_app raises, the restart handlers go on to return.
relaunch_failed(t, e, note) ==
    IF t = "launch_app" THEN Raise(<<"Failed to launch app: ">> \o e)
    ELSE Return(note)

---------------------------------------------------------------------------
(* Unit specification of the package listing: the parsing and filtering of *)
(* handle_adb_list_packages on any output of up to MaxListLines lines.     *)

\* Lines of a `pm list packages` output: packages in mixed case, a line
\* without the prefix that holds the filter's text, a warning, a blank line.
PackageLines ==
    {<<"package:", "com.android.", "Chrome">>,
     <<"package:", "org.", "CHROME", ".beta">>,
     <<"package:", "com.example.", "app">>,
     <<"com.", "chrome", ".unlisted">>,
     <<"WARNING:", "linker">>,
     <<>>}

\* The filter argument: absent, empty, in several cases, and the prefix.
Filters == {None, "", "chrome", "Chrome", "CHROME", "app", "package:"}

ListPackagesCall ==
    /\ call = NoCall
    /\ \E listing \in SeqUpTo(PackageLines, MaxListLines), f \in Filters :
         /\ call' = [fn |-> "list_packages", listing |-> listing, filter |-> f]
         /\ ret' = list_packages(strip(listing), f)
    /\ UNCHANGED <<MainVars, ConcVars>>

NextPackages == ListPackagesCall \/ UnitReturn

SpecPackages == Init /\ [][NextPackages]_vars

---------------------------------------------------------------------------
(* The tool dispatcher: call_tool and the handlers, one action per stretch *)
(* of code between two awaits.                                             *)

\* A mutant: the exception leaves call_tool.
call_tool_except_Propagates(msg) == [pc |-> "propagated", result |-> <<>>]

\* call_tool's except clause: the exception becomes the returned text.
call_tool_except(msg) == [pc |-> "done", result |-> <<"Error: ">> \o msg]

\* The handler returns `text`, and call_tool returns it.
Returns(text) ==
    /\ pc' = "done"
    /\ result' = text
    /\ exc' = NoExc

\* The handler raises an exception of message `msg`.
Raises(msg) ==
    /\ pc' = call_tool_except(msg).pc
    /\ result' = call_tool_except(msg).result
    /\ exc' = [raised |-> TRUE, msg |-> msg]

Finish(r) == IF r.ok THEN Returns(r.val) ELSE Raises(r.val)

Issue(evs) == issued' = issued \o evs

\* What the dispatcher leaves alone: the variables of the unit
\* specifications and of the overlapping invocations.
OtherVars == <<call, ret, clock, tasks, disk>>

\* call_tool from its first line to the handler's first line.
call_tool ==
    /\ pc = "idle"
    /\ \E name \in ToolNames \cup {UnknownTool} : \E a \in ArgBags(name) :
         /\ tool' = name
         /\ args' = a
         /\ IF name \in ToolNames
            THEN pc' = "handler" /\ UNCHANGED <<result, exc>>
            ELSE Raises(<<"Unknown tool: ", name>>)
    /\ UNCHANGED <<device_id, locals, issued, files, OtherVars>>

\* list_tools: the tool listing is returned.
list_tools ==
    /\ pc = "idle"
    /\ pc' = "done"
    /\ result' = ToolList
    /\ UNCHANGED <<tool, args, device_id, locals, issued, files, exc, OtherVars>>

\* The server takes the next request: the invocation is over.
run ==
    /\ pc = "done"
    /\ pc' = "idle"
    /\ tool' = None
    /\ args' = None
    /\ device_id' = None
    /\ locals' = NoLocals
    /\ issued' = <<>>
    /\ files' = {}
    /\ result' = <<>>
    /\ exc' = NoExc
    /\ UNCHANGED OtherVars

\* The first lines of every handler: the isinstance tests of the required
\* arguments, then validate_device_id when args.get("device_id") is truthy
\* (handle_adb_devices queries the devices itself).
handler_entry ==
    /\ pc = "handler"
    /\ IF ~ArgsValid(tool, args)
       THEN /\ Raises(InvalidParams(tool))
            /\ UNCHANGED <<device_id, issued>>
       ELSE IF tool = "adb_devices"
       THEN /\ Issue(<<DevicesQuery>>)
            /\ pc' = "get_connected_devices"
            /\ UNCHANGED <<device_id, result, exc>>
       ELSE IF Truthy(args.device_id)
       THEN /\ Issue(<<DevicesQuery>>)
            /\ pc' = "validate_device_id"
            /\ UNCHANGED <<device_id, result, exc>>
       ELSE /\ pc' = "body"
            /\ device_id' = IF tool = "take_screenshot_and_save"
                            THEN args.device_id ELSE None
            /\ UNCHANGED <<issued, result, exc>>
    /\ UNCHANGED <<tool, args, locals, files, OtherVars>>

\* validate_device_id returns to the handler, or raises.
validate_device_id_done ==
    /\ pc = "validate_device_id"
    /\ \E proc \in DevicesProcs :
         LET r == Resolve(args.device_id, proc)
         IN  IF r.ok
             THEN /\ device_id' = r.val
                  /\ pc' = "body"
                  /\ UNCHANGED <<result, exc>>
             ELSE /\ Raises(r.val)
                  /\ UNCHANGED device_id
    /\ UNCHANGED <<tool, args, locals, issued, files, OtherVars>>

\* handle_adb_devices: json.dumps of the device list.
handle_adb_devices ==
    /\ pc = "get_connected_devices"
    /\ \E proc \in DevicesProcs :
         LET r == execute_adb_command(proc)
             devices == get_connected_devices(r.val)
         IN  IF r.ok
             THEN Returns(<<"[">>
                          \o Flatten([i \in DOMAIN devices |->
                                 <<devices[i].id, devices[i].state>>])
                          \o <<"]">>)
             ELSE Raises(r.val)
    /\ UNCHANGED <<tool, args, device_id, locals, issued, files, OtherVars>>

\* The handlers of one bridge command, after the device is resolved: the
\* command is issued.
handle_simple ==
    /\ pc = "body"
    /\ tool \in SimpleTools
    /\ \E c \in Commands(tool, args) : Issue(<<AdbEvent(c, device_id)>>)
    /\ pc' = "execute_adb_command"
    /\ UNCHANGED <<tool, args, device_id, locals, files, result, exc, OtherVars>>

\* handle_adb_pull after the device is resolved: the local path is resolved
\* and its directory is prepared, then the command is issued.
handle_adb_pull ==
    /\ pc = "body"
    /\ tool = "adb_pull"
    /\ LET path == resolve_path(PathPieces(args.local_path))
           dir == dirname(path)
       IN  \E d \in DirOutcomes :
             CASE d = "makedirs_fails" ->
                    /\ Issue(<<FsEvent("makedirs", dir)>>)
                    /\ Raises(<<"Failed to create directory: ", "OSError">>)
                    /\ UNCHANGED locals
               [] d = "not_writable" ->
                    /\ Issue(<<FsEvent("makedirs", dir),
                               FsEvent("write-test", dir)>>)
                    /\ Raises(<<"Directory is not writable: ">> \o dir
                              \o <<HomeHint>>)
                    /\ UNCHANGED locals
               [] d = "writable" ->
                    /\ \E c \in Commands(tool, args) :
                         Issue(<<FsEvent("makedirs", dir),
                                 FsEvent("write-test", dir),
                                 [AdbEvent(c, device_id) EXCEPT !.target = path]>>)
                    /\ locals' = [locals EXCEPT !.path = path]
                    /\ pc' = "execute_adb_command"
                    /\ UNCHANGED <<result, exc>>
    /\ UNCHANGED <<tool, args, device_id, files, OtherVars>>

\* handle_adb_push after the device is resolved: the local file must exist.
handle_adb_push ==
    /\ pc = "body"
    /\ tool = "adb_push"
    /\ LET path == resolve_path(PathPieces(args.local_path))
       IN  \E exists \in BOOLEAN :
             IF exists
             THEN /\ \E c \in Commands(tool, args) :
                       Issue(<<[AdbEvent(c, device_id) EXCEPT !.target = path]>>)
                  /\ pc' = "execute_adb_command"
                  /\ UNCHANGED <<result, exc>>
             ELSE /\ Raises(<<"Local file does not exist: ">> \o path)
                  /\ UNCHANGED issued
    /\ UNCHANGED <<tool, args, device_id, locals, files, OtherVars>>

\* The bridge command of a one-command handler has finished.
execute_adb_command_done ==
    /\ pc = "execute_adb_command"
    /\ \E proc \in (IF tool = "adb_list_packages" THEN ListProcs ELSE CmdProcs) :
         LET r == execute_adb_command(proc)
         IN  IF r.ok
             THEN /\ Returns(SuccessText(tool, args, r.val))
                  /\ files' = IF tool = "adb_pull"
                              THEN files \cup {locals.path} ELSE files
             ELSE /\ Raises(IF tool = "adb_pull"
                            THEN <<"Failed to pull file: ">> \o r.val
                                 \o <<HomeHint>>
                            ELSE r.val)
                  /\ UNCHANGED files
    /\ UNCHANGED <<tool, args, device_id, locals, issued, OtherVars>>

---------------------------------------------------------------------------
(* launch_app, clear_cache_and_restart and force_restart_app.              *)

\* After the device is resolved: launch_app issues the first launch
\* attempt, the restart handlers their primary action.
handle_lifecycle ==
    /\ pc = "body"
    /\ tool \in RestartTools \cup {"launch_app"}
    /\ IF tool = "launch_app"
       THEN /\ Issue(<<AdbEvent(MonkeyCommand(args.package_name), device_id)>>)
            /\ pc' = "launch1"
       ELSE /\ \E c \in Commands(tool, args) : Issue(<<AdbEvent(c, device_id)>>)
            /\ pc' = "primary"
    /\ UNCHANGED <<tool, args, device_id, locals, files, result, exc, OtherVars>>

\* A mutant: the primary action's failure is put up with, as the
\* relaunch's is.
after_primary_Swallows(r) == "sleep"

\* What follows the primary action: it is awaited outside any try clause,
\* so its exception leaves the handler; its return starts the wait.
after_primary(r) == IF r.ok THEN "sleep" ELSE "raise"

\* The primary action (pm clear, am force-stop) has finished: its failure
\* leaves the handler, its success starts the wait.
primary_done ==
    /\ pc = "primary"
    /\ \E proc \in CmdProcs :
         LET r == execute_adb_command(proc)
         IN  IF after_primary(r) = "sleep"
             THEN /\ locals' = [locals EXCEPT
                                   !.out = IF r.ok THEN r.val ELSE <<>>,
                                   !.primary = IF r.ok THEN "ok" ELSE "fail"]
                  /\ Issue(<<SleepEvent>>)
                  /\ pc' = "sleep"
                  /\ UNCHANGED <<result, exc>>
             ELSE /\ locals' = [locals EXCEPT !.primary = "fail"]
                  /\ Raises(r.val)
                  /\ UNCHANGED issued
    /\ UNCHANGED <<tool, args, device_id, files, OtherVars>>

\* The wait is over: the first launch attempt is issued.
sleep_done ==
    /\ pc = "sleep"
    /\ Issue(<<AdbEvent(MonkeyCommand(args.package_name), device_id)>>)
    /\ pc' = "launch1"
    /\ UNCHANGED <<tool, args, device_id, locals, files, result, exc, OtherVars>>

\* A mutant: the component query follows the first launch attempt however
\* it ended.
after_launch1_AlwaysFallback(r) == "dumpsys"

\* What follows the first launch attempt: the except clause, with the
\* component query, is entered only when it raised.
after_launch1(r) == IF r.ok THEN "return" ELSE "dumpsys"

\* The first launch attempt has finished: its success ends the handler, its
\* failure issues the component query.
launch1_done ==
    /\ pc = "launch1"
    /\ \E proc \in CmdProcs :
         LET r == execute_adb_command(proc)
         IN  IF after_launch1(r) = "return"
             THEN /\ locals' = [locals EXCEPT !.l1 = "ok"]
                  /\ Returns(IF tool = "launch_app"
                             THEN <<"App launched: ", args.package_name, "\n">>
                                  \o Flatten(r.val)
                             ELSE RestartText(tool, args.package_name,
                                              locals.out, Flatten(r.val)))
                  /\ UNCHANGED issued
             ELSE /\ locals' = [locals EXCEPT
                                   !.l1 = IF r.ok THEN "ok" ELSE "fail",
                                   !.e = IF r.ok THEN <<>> ELSE r.val]
                  /\ Issue(<<AdbEvent(DumpsysCommand(args.package_name),
                                      device_id)>>)
                  /\ pc' = "dumpsys"
                  /\ UNCHANGED <<result, exc>>
    /\ UNCHANGED <<tool, args, device_id, files, OtherVars>>

\* The end of the handler when the relaunch has failed with start_output
\* `note`.
LaunchFailed(note) ==
    LET r == relaunch_failed(tool, locals.e, note)
    IN  IF r.ok
        THEN Returns(RestartText(tool, args.package_name, locals.out, r.val))
        ELSE Raises(r.val)

\* The component query has finished: with a component reference in its
\* output the second launch attempt is issued, without one or on its failure
\* the relaunch has failed.
dumpsys_done ==
    /\ pc = "dumpsys"
    /\ \E proc \in DumpsysProcs :
         LET r == execute_adb_command(proc)
             activity == IF r.ok THEN re_search(r.val) ELSE None
         IN  IF ~r.ok
             THEN /\ locals' = [locals EXCEPT !.l2 = "query_failed"]
                  /\ LaunchFailed(<<FailedToRestart>> \o r.val)
                  /\ UNCHANGED issued
             ELSE IF activity = None
             THEN /\ locals' = [locals EXCEPT !.l2 = "no_component"]
                  /\ LaunchFailed(<<CouldNotDetermine>>)
                  /\ UNCHANGED issued
             ELSE /\ locals' = [locals EXCEPT !.activity = activity]
                  /\ Issue(<<AdbEvent(AmStartCommand(activity), device_id)>>)
                  /\ pc' = "launch2"
                  /\ UNCHANGED <<result, exc>>
    /\ UNCHANGED <<tool, args, device_id, files, OtherVars>>

\* The second launch attempt has finished.
launch2_done ==
    /\ pc = "launch2"
    /\ \E proc \in CmdProcs :
         LET r == execute_adb_command(proc)
         IN  IF r.ok
             THEN /\ locals' = [locals EXCEPT !.l2 = "ok"]
                  /\ Returns(IF tool = "launch_app"
                             THEN <<"App launched with activity: ",
                                    locals.activity, "\n">> \o Flatten(r.val)
                             ELSE RestartText(tool, args.package_name,
                                              locals.out, Flatten(r.val)))
             ELSE /\ locals' = [locals EXCEPT !.l2 = "fail"]
                  /\ LaunchFailed(<<FailedToRestart>> \o r.val)
    /\ UNCHANGED <<tool, args, device_id, issued, files, OtherVars>>

---------------------------------------------------------------------------
(* take_screenshot_and_save and take_screenshot_and_copy_to_clipboard.     *)

\* The milliseconds of the event loop's clock when the temp path is made.
ClockMs == "1000"

\* args.get("format", "png")
FormatArg(a) == IF a.format = None THEN "png" ELSE a.format

AttributeErrorLower == <<"'int' object has no attribute 'lower'">>

\* The except clause of take_screenshot_and_save.
SaveFailed(msg) == <<"Failed to take screenshot: ">> \o msg \o <<HomeHint>>

\* The except clause of take_screenshot_and_copy_to_clipboard.
ClipboardFailed(msg) == <<"Failed to take screenshot: ">> \o msg

\* handle_take_screenshot_and_save after the device is validated: the output
\* path is resolved and its directory prepared, then the capture is started
\* with its output redirected to the resolved path.
handle_take_screenshot_and_save ==
    /\ pc = "body"
    /\ tool = "take_screenshot_and_save"
    /\ LET path == resolve_path(PathPieces(args.output_path))
           dir == dirname(path)
       IN  \E d \in DirOutcomes :
             CASE d = "makedirs_fails" ->
                    /\ Issue(<<FsEvent("makedirs", dir)>>)
                    /\ Raises(<<"Failed to create directory: ", "OSError">>)
                    /\ UNCHANGED locals
               [] d = "not_writable" ->
                    /\ Issue(<<FsEvent("makedirs", dir),
                               FsEvent("write-test", dir)>>)
                    /\ Raises(<<"Directory is not writable: ">> \o dir
                              \o <<HomeHint>>)
                    /\ UNCHANGED locals
               [] d = "writable" ->
                    /\ Issue(<<FsEvent("makedirs", dir),
                               FsEvent("write-test", dir),
                               CaptureEvent(device_id, path)>>)
                    /\ locals' = [locals EXCEPT !.path = path, !.png = path]
                    /\ pc' = "capture"
                    /\ UNCHANGED <<result, exc>>
    /\ UNCHANGED <<tool, args, device_id, files, OtherVars>>

\* The path the converted image of take_screenshot_and_save is written to.
format_output_path(path, fmt) == replace(path, ".png", get_file_extension(fmt))

\* The files after take_screenshot_and_save has converted the capture `png`
\* into `out` and unlinked `png`.
save_converted(fs, png, out) == (fs \cup {out}) \ {png}

\* The capture of take_screenshot_and_save has finished: the handler
\* converts the file if the format is not png, and returns.
take_screenshot_and_save_done ==
    /\ pc = "capture"
    /\ tool = "take_screenshot_and_save"
    /\ \E cap \in CaptureOutcomes, conv \in ConvertOutcomes :
         LET png == locals.png
             captured == IF cap.created THEN files \cup {png} ELSE files
             fmt == lower(FormatArg(args))
             out == format_output_path(png, fmt)
         IN  IF cap.rc # 0
             THEN /\ files' = captured
                  /\ Raises(SaveFailed(<<"Failed to take screenshot">>))
                  /\ locals' = [locals EXCEPT !.cap = "fail"]
             ELSE IF ~isinstance_str(FormatArg(args))
             THEN /\ files' = captured
                  /\ Raises(SaveFailed(AttributeErrorLower))
                  /\ locals' = [locals EXCEPT !.cap = "ok"]
             ELSE IF fmt = "png"
             THEN /\ files' = captured
                  /\ locals' = [locals EXCEPT !.fmt = fmt, !.cap = "ok"]
                  /\ Returns(<<"Screenshot saved to: ">> \o png
                             \o <<" in ", fmt, " format">>)
             ELSE CASE conv = "ok" ->
                         /\ files' = save_converted(captured, png, out)
                         /\ locals' = [locals EXCEPT !.fmt = fmt, !.path = out,
                                                     !.cap = "ok", !.conv = "ok"]
                         /\ Returns(<<"Screenshot saved to: ">> \o out
                                    \o <<" in ", fmt, " format">>)
                    [] conv = "fails" ->
                         /\ files' = captured
                         /\ locals' = [locals EXCEPT !.fmt = fmt, !.cap = "ok",
                                                     !.conv = "fail"]
                         /\ Raises(SaveFailed(<<"Failed to convert image: ",
                                                "cannot identify image file">>))
                    [] conv = "fails_partial" ->
                         /\ files' = captured \cup {out}
                         /\ locals' = [locals EXCEPT !.fmt = fmt, !.cap = "ok",
                                                     !.conv = "fail"]
                         /\ Raises(SaveFailed(<<"Failed to convert image: ",
                                                "OSError">>))
    /\ UNCHANGED <<tool, args, device_id, issued, OtherVars>>

\* handle_take_screenshot_and_copy_to_clipboard after the device is
\* resolved: the format is read, the temp path made, and the capture started
\* with its output redirected to the temp path with the extension .png.
handle_take_screenshot_and_copy_to_clipboard ==
    /\ pc = "body"
    /\ tool = "take_screenshot_and_copy_to_clipboard"
    /\ IF ~isinstance_str(FormatArg(args))
       THEN /\ Raises(AttributeErrorLower)
            /\ UNCHANGED <<locals, issued>>
       ELSE LET fmt == lower(FormatArg(args))
                temp_local_path == create_temp_file_path(fmt, ClockMs)
                temp_png_path ==
                    replace(temp_local_path, get_file_extension(fmt), ".png")
            IN  /\ locals' = [locals EXCEPT !.fmt = fmt,
                                            !.path = temp_local_path,
                                            !.png = temp_png_path]
                /\ Issue(<<CaptureEvent(device_id, temp_png_path)>>)
                /\ pc' = "capture"
                /\ UNCHANGED <<result, exc>>
    /\ UNCHANGED <<tool, args, device_id, files, OtherVars>>

\* The finally clause of take_screenshot_and_copy_to_clipboard: the file at
\* temp_local_path is unlinked if it exists.
clipboard_finally(fs, temp_local_path) == fs \ {temp_local_path}

\* The capture of take_screenshot_and_copy_to_clipboard has finished: the
\* handler converts or renames the file, hands it to the clipboard, and
\* cleans up.
take_screenshot_and_copy_to_clipboard_done ==
    /\ pc = "capture"
    /\ tool = "take_screenshot_and_copy_to_clipboard"
    /\ \E cap \in CaptureOutcomes, conv \in ConvertOutcomes,
          platform \in Platforms :
         LET png == locals.png
             tmp == locals.path
             captured == IF cap.created THEN files \cup {png} ELSE files
             clip == copy_image_to_clipboard(platform)
             clipped == IF clip.ok
                        THEN Return(<<"Screenshot copied to clipboard in ",
                                      locals.fmt, " format">>)
                        ELSE Raise(ClipboardFailed(clip.val))
         IN  IF cap.rc # 0
             THEN /\ files' = clipboard_finally(captured, tmp)
                  /\ Raises(ClipboardFailed(<<"Failed to take screenshot">>))
                  /\ locals' = [locals EXCEPT !.cap = "fail"]
                  /\ UNCHANGED issued
             ELSE IF locals.fmt = "png"
             THEN /\ files' = clipboard_finally(captured, tmp)
                  /\ Finish(clipped)
                  /\ locals' = [locals EXCEPT !.cap = "ok"]
                  /\ Issue(clip.started)
             ELSE CASE conv = "ok" ->
                         /\ files' = clipboard_finally(
                                         (captured \cup {tmp}) \ {png}, tmp)
                         /\ Finish(clipped)
                         /\ locals' = [locals EXCEPT !.cap = "ok",
                                                     !.conv = "ok"]
                         /\ Issue(clip.started)
                    [] conv = "fails" ->
                         /\ files' = clipboard_finally(captured, tmp)
                         /\ Raises(ClipboardFailed(
                                <<"Failed to convert image: ",
                                  "cannot identify image file">>))
                         /\ locals' = [locals EXCEPT !.cap = "ok",
                                                     !.conv = "fail"]
                         /\ UNCHANGED issued
                    [] conv = "fails_partial" ->
                         /\ files' = clipboard_finally(captured \cup {tmp}, tmp)
                         /\ Raises(ClipboardFailed(
                                <<"Failed to convert image: ", "OSError">>))
                         /\ locals' = [locals EXCEPT !.cap = "ok",
                                                     !.conv = "fail"]
                         /\ UNCHANGED issued
    /\ UNCHANGED <<tool, args, device_id, OtherVars>>

---------------------------------------------------------------------------
(* The specification of the dispatcher.                                    *)

Next ==
    \/ list_tools
    \/ call_tool
    \/ run
    \/ handler_entry
    \/ validate_device_id_done
    \/ handle_adb_devices
    \/ handle_simple
    \/ handle_adb_pull
    \/ handle_adb_push
    \/ execute_adb_command_done
    \/ handle_lifecycle
    \/ primary_done
    \/ sleep_done
    \/ launch1_done
    \/ dumpsys_done
    \/ launch2_done
    \/ handle_take_screenshot_and_save
    \/ take_screenshot_and_save_done
    \/ handle_take_screenshot_and_copy_to_clipboard
    \/ take_screenshot_and_copy_to_clipboard_done

Spec == Init /\ [][Next]_vars

\* The dispatcher when every awaited step of the restart handlers ends: the
\* event loop resumes the handler once the bridge process it awaits has
\* exited or the timer of asyncio.sleep has fired.
SpecLifecycle ==
    /\ Spec
    /\ WF_vars(primary_done)
    /\ WF_vars(sleep_done)
    /\ WF_vars(launch1_done)
    /\ WF_vars(dumpsys_done)
    /\ WF_vars(launch2_done)

---------------------------------------------------------------------------
(* Two invocations of take_screenshot_and_copy_to_clipboard that overlap:  *)
(* the event loop runs one handler until it awaits, then the other.  The   *)
(* handlers share the clock and the temp directory.                        *)

Invocations == {1, 2}

\* The formats the overlapping invocations ask for.
TaskFormats == {"png", "jpg"}

\* A file of the temp directory and the invocation that created it.
File(path, i) == [path |-> path, owner |-> i]

Exists(d, path) == \E f \in d : f.path = path

\* The file at `path` exists and another invocation created it.
Foreign(d, path, i) == \E f \in d : f.path = path /\ f.owner # i

\* The file at `path` is opened for writing: created if it is not there.
Written(d, path, i) == IF Exists(d, path) THEN d ELSE d \cup {File(path, i)}

\* os.unlink(path)
Unlinked(d, path) == {f \in d : f.path # path}

\* The event loop's clock goes on by a millisecond.
Tick ==
    /\ clock < MaxClock
    /\ clock' = clock + 1
    /\ UNCHANGED <<MainVars, call, ret, tasks, disk>>

\* The handler ends: call_tool returns `text`.
TaskEnds(i, text, foreign) ==
    tasks' = [tasks EXCEPT ![i].pc = "done", ![i].result = text,
                           ![i].foreign = foreign]

\* From temp_local_path = create_temp_file_path(format_name) to the await
\* of the capture process.
TaskAllocates(i, fmt) ==
    LET temp_local_path == create_temp_file_path(fmt, ToString(clock))
        temp_png_path ==
            replace(temp_local_path, get_file_extension(fmt), ".png")
    IN  tasks' = [tasks EXCEPT ![i].pc = "spawned", ![i].fmt = fmt,
                               ![i].path = temp_local_path,
                               ![i].png = temp_png_path]

\* An invocation begins: call_tool runs the handler to its first await,
\* that of validate_device_id when a device_id is given, else that of the
\* capture process.
task_begin(i) ==
    /\ tasks[i].pc = "idle"
    /\ \E fmt \in TaskFormats, hinted \in BOOLEAN :
         IF hinted
         THEN tasks' = [tasks EXCEPT ![i].pc = "validate_device_id",
                                     ![i].fmt = fmt]
         ELSE TaskAllocates(i, fmt)
    /\ UNCHANGED <<MainVars, call, ret, clock, disk>>

\* validate_device_id returns the device, or raises.
task_validated(i) ==
    /\ tasks[i].pc = "validate_device_id"
    /\ \E found \in BOOLEAN :
         IF found THEN TaskAllocates(i, tasks[i].fmt)
         ELSE TaskEnds(i, <<"Error: ">> \o NotFoundMsg("d1"), FALSE)
    /\ UNCHANGED <<MainVars, call, ret, clock, disk>>

\* The shell of the capture process opens the file its output is redirected
\* to (or fails to).
task_capture_opens(i) ==
    /\ tasks[i].pc = "spawned"
    /\ \E created \in BOOLEAN :
         /\ disk' = IF created THEN Written(disk, tasks[i].png, i) ELSE disk
         /\ tasks' = [tasks EXCEPT
                         ![i].pc = IF created THEN "capture" ELSE "capture_failed",
                         ![i].foreign = created /\ Foreign(disk, tasks[i].png, i)]
    /\ UNCHANGED <<MainVars, call, ret, clock>>

\* The finally clause: temp_local_path is unlinked if it exists.
TaskFinally(i, d, text, foreign) ==
    /\ disk' = Unlinked(d, tasks[i].path)
    /\ TaskEnds(i, <<"Error: ">> \o ClipboardFailed(text),
                foreign \/ Foreign(d, tasks[i].path, i))

\* The capture process has exited: the handler converts or renames the
\* file, calls copy_image_to_clipboard, and cleans up, without another
\* await.
task_captured(i) ==
    /\ tasks[i].pc \in {"capture", "capture_failed"}
    /\ \E rc \in {0, 1}, conv \in ConvertOutcomes, platform \in Platforms :
         LET png == tasks[i].png
             tmp == tasks[i].path
             was == tasks[i].foreign
             clip == copy_image_to_clipboard(platform)
         IN  /\ tasks[i].pc = "capture_failed" => rc = 1
             /\ IF rc # 0
                THEN TaskFinally(i, disk, <<"Failed to take screenshot">>, was)
                ELSE IF ~Exists(disk, png)
                THEN TaskFinally(i, disk, <<"No such file or directory">>, was)
                ELSE IF tasks[i].fmt = "png"
                THEN TaskFinally(i, disk, clip.val, was)
                ELSE CASE conv = "ok" ->
                            TaskFinally(i, Unlinked(Written(disk, tmp, i), png),
                                        clip.val,
                                        was \/ Foreign(disk, tmp, i)
                                            \/ Foreign(disk, png, i))
                       [] conv = "fails" ->
                            TaskFinally(i, disk,
                                        <<"Failed to convert image: ",
                                          "cannot identify image file">>, was)
                       [] conv = "fails_partial" ->
                            TaskFinally(i, Written(disk, tmp, i),
                                        <<"Failed to convert image: ", "OSError">>,
                                        was \/ Foreign(disk, tmp, i))
    /\ UNCHANGED <<MainVars, call, ret, clock>>

NextConcurrent ==
    \/ Tick
    \/ \E i \in Invocations : task_begin(i)
    \/ \E i \in Invocations : task_validated(i)
    \/ \E i \in Invocations : task_capture_opens(i)
    \/ \E i \in Invocations : task_captured(i)

SpecConcurrent == Init /\ [][NextConcurrent]_vars

---------------------------------------------------------------------------
(* The specification of the server from its construction.                  *)

\* How subprocess.run(["adb", "version"], check=True) ends: the bridge runs
\* and exits zero, exits non-zero, is not found on the PATH, or is found and
\* cannot be executed.
VersionOutcomes ==
    {"ok", "CalledProcessError", "FileNotFoundError", "PermissionError"}

\* check_adb_availability: True, False for the two exceptions it catches;
\* any other exception leaves it.
check_adb_availability(o) ==
    CASE o = "ok" -> Return(TRUE)
      [] o \in {"CalledProcessError", "FileNotFoundError"} -> Return(FALSE)
      [] OTHER -> Raise(<<o>>)

\* A mutant: the constructor goes on whatever the check answered.
init_gate_Ignored(r) == "idle"

\* AndroidAdbServer.__init__ after the check: sys.exit(1) unless it returned
\* True (an exception of the check leaves main, which ends the process too);
\* otherwise the server is constructed and main runs it.
init_gate(r) == IF r.ok /\ r.val THEN "idle" ELSE "exited"

\* main: the construction of the server.
AndroidAdbServer_init ==
    /\ pc = "new"
    /\ \E o \in VersionOutcomes :
         /\ call' = [fn |-> "check_adb_availability", outcome |-> o,
                     n |-> IF call = NoCall THEN 1 ELSE call.n + 1]
         /\ ret' = check_adb_availability(o)
         /\ pc' = init_gate(check_adb_availability(o))
    /\ UNCHANGED <<tool, args, device_id, locals, issued, files, result, exc,
                   ConcVars>>

\* The process before main constructs the server.
InitStartup ==
    /\ pc = "new"
    /\ tool = None /\ args = None /\ device_id = None /\ locals = NoLocals
    /\ issued = <<>> /\ files = {} /\ result = <<>> /\ exc = NoExc
    /\ call = NoCall /\ ret = None
    /\ clock = 0 /\ tasks = NoTasks /\ disk = {}

NextStartup == AndroidAdbServer_init \/ Next

SpecStartup == InitStartup /\ [][NextStartup]_vars

---------------------------------------------------------------------------
(* Properties of the dispatcher.                                           *)

\* A failure-shaped result: the text starts with "Error: ".
IsErrorText(t) == t # <<>> /\ t[1] = "Error: "

Done == pc = "done"

\* C1: call_tool never lets an exception propagate: the invocation is never
\* left by an exception, and whenever the handler chain raised, the
\* invocation is over with the text "Error: " followed by the exception's
\* message.
C1_ErrorsBecomeResults ==
    /\ pc # "propagated"
    /\ exc.raised => Done /\ IsErrorText(result)
                     /\ result = <<"Error: ">> \o exc.msg

\* The conversion step of the clipboard capture fails and the call returns
\* an error text.
C1_Witness ==
    /\ Done /\ tool = "take_screenshot_and_copy_to_clipboard"
    /\ exc.raised /\ IsErrorText(result)
    /\ \E i \in DOMAIN result : result[i] = "Failed to convert image: "

\* C2: when take_screenshot_and_copy_to_clipboard is over, no file written
\* by the invocation is left on disk, neither the final temp file nor the
\* PNG capture.
C2_NoFileLeft ==
    (Done /\ tool = "take_screenshot_and_copy_to_clipboard") => files = {}

\* C3: when take_screenshot_and_save has succeeded with a format other than
\* png, exactly one file is left, at the reported path, and that path ends
\* with the format's extension.
C3_OneFileAtFinalPath ==
    (Done /\ tool = "take_screenshot_and_save" /\ ~exc.raised
          /\ locals.fmt # "png") =>
        /\ files = {locals.path}
        /\ locals.path[Len(locals.path)] = get_file_extension(locals.fmt)
        /\ result = <<"Screenshot saved to: ">> \o locals.path
                    \o <<" in ", locals.fmt, " format">>

\* The launch chain ended without a successful attempt.
RelaunchFailed ==
    locals.l1 = "fail" /\ locals.l2 \in {"fail", "no_component", "query_failed"}

HasRelaunchNote(t) ==
    \E i \in DOMAIN t : t[i] \in {CouldNotDetermine, FailedToRestart}

\* C4: when a restart handler's primary action succeeded (the launch chain
\* was entered), the result is success-shaped whatever the launch chain
\* did, and when no launch attempt succeeded the text has the note of the
\* failed relaunch.
C4_RestartReportsSuccess ==
    (Done /\ tool \in RestartTools /\ locals.l1 # None) =>
        /\ ~IsErrorText(result)
        /\ ~exc.raised
        /\ RelaunchFailed => HasRelaunchNote(result)

C4_Witness ==
    /\ Done /\ tool = "clear_cache_and_restart"
    /\ locals.l1 = "fail" /\ locals.l2 = "fail"
    /\ ~IsErrorText(result) /\ HasRelaunchNote(result)

\* C5: launch_app returns a failure-shaped result when the first attempt
\* failed and the second failed or could not be made, and a success-shaped
\* one as soon as an attempt succeeds (after a successful first attempt no
\* second one is made).
C5_LaunchEscalates ==
    (Done /\ tool = "launch_app" /\ locals.l1 # None) =>
        /\ RelaunchFailed => IsErrorText(result)
        /\ (locals.l1 = "ok" \/ locals.l2 = "ok") => ~IsErrorText(result)
        /\ locals.l1 = "ok" => locals.l2 = None /\ Len(issued) <= 2
        /\ RelaunchFailed \/ locals.l1 = "ok" \/ locals.l2 = "ok"

C5_Witness ==
    /\ Done /\ tool = "launch_app"
    /\ locals.l1 = "fail" /\ locals.l2 = "no_component"
    /\ IsErrorText(result)

\* The device-addressed operations the device-resolution policy is to run
\* before.
ResolvedTools == ToolNames \ {"adb_devices", "go_to_home", "open_settings"}

\* C6: in a call of a device-addressed operation without a device hint, the
\* device list is queried first: no operation bridge command is issued
\* before the `adb devices` query (whose empty or multiple answer is what
\* ends the call in NoDeviceError or AmbiguousDeviceError).
C6_ResolvesBeforeOperation ==
    (tool \in ResolvedTools /\ args.device_id = None) =>
        \A i \in DOMAIN issued :
            (issued[i].kind = "adb" /\ issued[i] # DevicesQuery) =>
                \E j \in 1..(i - 1) : issued[j] = DevicesQuery

\* A required string argument of the tool's schema is missing or not a str.
BadRequiredArg ==
    /\ tool \in ToolNames
    /\ \E k \in SchemaRequired(tool) : ~isinstance_str(args[k])

\* C11: a call with a required string argument missing or not a str goes
\* from the handler's first line straight to a failure-shaped result, the
\* text of the validation failure; nothing was issued before it: no device
\* query, no bridge command, no other process, no filesystem operation, and
\* no file was written.
C11_ValidatesBeforeActing ==
    (BadRequiredArg /\ pc # "handler") =>
        /\ Done /\ IsErrorText(result)
        /\ result = <<"Error: ">> \o InvalidParams(tool)
        /\ issued = <<>>
        /\ files = {}

\* adb_pull with a device hint and a local_path that is not a str.
C11_Witness ==
    /\ Done /\ tool = "adb_pull"
    /\ args.remote_path = "/sdcard/shot.png" /\ args.local_path = NotStr
    /\ args.device_id = "d1"
    /\ IsErrorText(result) /\ issued = <<>>

\* go_to_home or open_settings is called without a device_id.
HomeOrSettingsWithoutDevice ==
    tool \in {"go_to_home", "open_settings"} /\ args.device_id = None

Checked == call # NoCall /\ call.fn = "check_adb_availability"

\* No operation has been served: no listing, no call, no command.
NothingServed ==
    /\ tool = None /\ args = None
    /\ result = <<>> /\ issued = <<>> /\ files = {} /\ ~exc.raised

\* C13: the availability check runs once, in the constructor, before any
\* operation: until it has run nothing is served; when it did not answer
\* True, the process has exited and nothing is ever served, so no call
\* reports the missing bridge as an "Error: " text; when it answered True
\* the server is constructed and the tool listing can be served.
C13_StartupGate ==
    /\ pc = "new" => ~Checked /\ NothingServed
    /\ pc # "new" => Checked /\ call.n = 1
    /\ (Checked /\ call.outcome # "ok") =>
           /\ ret # Return(TRUE)
           /\ pc = "exited"
           /\ NothingServed
    /\ pc \notin {"new", "exited"} =>
           call.outcome = "ok" /\ ret = Return(TRUE)
    /\ pc = "idle" => ENABLED list_tools

\* The bridge was found, the server constructed, and the listing served.
C13_Witness ==
    /\ Checked /\ call.outcome = "ok" /\ ret = Return(TRUE)
    /\ Done /\ result = ToolList

PathResolved == call.fn = "resolve_path"

\* The path starts at the root.
Absolute(p) == p # <<>> /\ p[1] = "/"

\* The path starts with the pieces of `pre`.
HasPrefix(p, pre) == Len(p) >= Len(pre) /\ SubSeq(p, 1, Len(pre)) = pre

\* The names of a path: its components other than the empty one and ".".
Names(p) ==
    LET cs == split_slash(p)
        keep == {i \in DOMAIN cs : cs[i] # <<>> /\ cs[i] # <<".">>}
        nth(k) == CHOOSE i \in keep :
                      Cardinality({j \in keep : j <= i}) = k
    IN  [k \in 1..Cardinality(keep) |-> cs[nth(k)]]

\* Followed from a directory, the names never climb above it: no prefix of
\* them has more ".." than other names.
NoClimb(names) ==
    \A k \in DOMAIN names :
        Cardinality({j \in 1..k : names[j] = <<"..">>}) * 2 <= k

\* The path is in or below the home directory.
UnderHome(p) ==
    /\ HasPrefix(p, Home)
    /\ Len(p) > Len(Home) => p[Len(Home) + 1] = "/"
    /\ NoClimb(SubSeq(Names(p), Len(Names(Home)) + 1, Len(Names(p))))

\* The path has no repeated or trailing separator (but the root's) and no
\* "." component.
Normal(p) ==
    /\ \A i \in 1..(Len(p) - 1) :
           (p[i] = "/" /\ p[i + 1] = "/") =>
               i = 1 /\ (Len(p) = 2 \/ p[3] # "/")
    /\ (Len(p) > 1 /\ p[Len(p)] = "/") => p = <<"/", "/">>
    /\ \A i \in DOMAIN split_slash(p) : split_slash(p)[i] # <<".">>

\* The home directory joined with a relative path as it is written.
HomeSlash(rest) == IF rest = <<>> THEN Home ELSE Home \o <<"/">> \o rest

\* C14 as stated: an absolute path is returned unchanged, "~" gives the
\* home directory, "~/rest" the home directory joined with rest, any other
\* path the home directory joined with the path; the result is absolute
\* and, for an input that is not absolute, under the home directory.
C14_ResolveAsWritten ==
    PathResolved =>
        LET p == call.file_path
        IN  /\ Absolute(p) => ret = p
            /\ p = <<"~">> => ret = Home
            /\ HasPrefix(p, <<"~", "/">>) =>
                   ret = HomeSlash(SubSeq(p, 3, Len(p)))
            /\ (~Absolute(p) /\ p # <<"~">> /\ ~HasPrefix(p, <<"~", "/">>)) =>
                   ret = HomeSlash(p)
            /\ Absolute(ret)
            /\ ~Absolute(p) => UnderHome(ret)

\* C14 amended: the result is absolute and in pathlib's normal form; for
\* an absolute input it has the input's names (it is the input when the
\* input is normal); for any other input it is the home directory followed
\* by the input's names, less a leading "~"; it is under the home directory
\* whenever those names do not climb above it with "..".
C14_ResolveNormalised ==
    PathResolved =>
        LET p == call.file_path
            names == IF Names(p) # <<>> /\ Names(p)[1] = <<"~">>
                     THEN Tail(Names(p)) ELSE Names(p)
        IN  /\ Absolute(ret) /\ Normal(ret)
            /\ Absolute(p) =>
                   /\ Names(ret) = Names(p)
                   /\ Normal(p) => ret = p
            /\ ~Absolute(p) =>
                   /\ HasPrefix(ret, Home)
                   /\ Names(ret) = Names(Home) \o names
                   /\ NoClimb(names) => UnderHome(ret)
                   /\ p = <<"~">> => ret = Home
                   /\ Normal(p) => ret = HomeSlash(join_slash(names))

\* "~/x/" resolves to the home directory's x, without the trailing slash.
C14_Witness ==
    /\ PathResolved
    /\ call.file_path = <<"~", "/", "x", "/">>
    /\ ret = Home \o <<"/", "x">>

PackagesListed == call.fn = "list_packages"

\* Two pieces are the same text up to the case of their letters.
SameIgnoringCase(a, b) ==
    a = b \/ {a, b} \subseteq {"chrome", "Chrome", "CHROME"}

\* The names of the "package:" lines of a listing, in the listing's order.
PackageNames(listing) ==
    LET IsPackageLine(line) == line # <<>> /\ line[1] = "package:"
        lines == SelectSeq(listing, IsPackageLine)
    IN  [i \in DOMAIN lines |-> Tail(lines[i])]

\* C15: with a filter that is not empty, the result is the names of the
\* "package:" lines that contain the filter whatever the case of either,
\* in the listing's order; with no filter (or an empty one) it is every
\* such name; a line without the prefix never gives an entry.
C15_FilterIgnoresCase ==
    PackagesListed =>
        LET names == PackageNames(call.listing)
            Contains(name) ==
                \E j \in DOMAIN name : SameIgnoringCase(name[j], call.filter)
        IN  /\ call.filter \notin {None, ""} => ret = SelectSeq(names, Contains)
            /\ call.filter \in {None, ""} => ret = names
            /\ \A i \in DOMAIN ret : \E j \in DOMAIN names : ret[i] = names[j]

\* The filter "chrome" keeps "com.android.Chrome" and drops the other
\* package and the line without the prefix that holds "chrome".
C15_Witness ==
    /\ PackagesListed /\ call.filter = "chrome"
    /\ call.listing = << <<"package:", "com.example.", "app">>,
                         <<"com.", "chrome", ".unlisted">>,
                         <<"package:", "com.android.", "Chrome">> >>
    /\ ret = << <<"com.android.", "Chrome">> >>

\* The step of the restart handlers an issued event belongs to.
StepOf(ev) ==
    CASE ev = DevicesQuery -> "resolve"
      [] ev.kind = "sleep" -> "wait"
      [] ev.kind = "adb" /\ ev # DevicesQuery ->
           IF \E j \in DOMAIN ev.cmd :
                  ev.cmd[j] \in {"shell pm clear ", "shell am force-stop "}
           THEN "primary"
           ELSE IF \E j \in DOMAIN ev.cmd : ev.cmd[j] = "shell monkey -p "
           THEN "launch1"
           ELSE IF \E j \in DOMAIN ev.cmd : ev.cmd[j] = "shell dumpsys package "
           THEN "query"
           ELSE IF \E j \in DOMAIN ev.cmd : ev.cmd[j] = "shell am start -n "
           THEN "launch2"
           ELSE "other"
      [] OTHER -> "other"

\* The steps issued so far, after the device resolution.
LifecycleSteps ==
    LET steps == [i \in DOMAIN issued |-> StepOf(issued[i])]
    IN  IF steps # <<>> /\ steps[1] = "resolve" THEN Tail(steps) ELSE steps

\* The steps of the state machine, in its order.
LifecycleOrder == <<"primary", "wait", "launch1", "query", "launch2">>

\* C16: when the primary action of a restart handler has failed, the
\* invocation is over with a failure-shaped result that carries the bridge
\* error, and neither the wait nor a launch command (first attempt,
\* component query, second attempt) was issued.
C16_PrimaryFailureEscalates ==
    (tool \in RestartTools /\ locals.primary = "fail") =>
        /\ Done /\ exc.raised /\ IsErrorText(result)
        /\ result[2] = "ADB command failed: "
        /\ LifecycleSteps = <<"primary">>

\* force_restart_app on a named device: the force-stop fails.
C16_Witness ==
    /\ Done /\ tool = "force_restart_app" /\ args.device_id = "d1"
    /\ locals.primary = "fail" /\ IsErrorText(result)
    /\ issued = <<DevicesQuery,
                  AdbEvent(<<"shell am force-stop ", "com.example.app">>, "d1")>>

\* The order of the restart handlers' steps: what was issued is a start of
\* the state machine's order, each step once; the step in flight is the
\* last one issued, so a step is issued only after the one before it has
\* ended; the wait follows a primary action that succeeded, the component
\* query a first attempt that failed; nothing is issued after an attempt
\* that succeeded; and a run whose primary action succeeded ends with a
\* success-shaped result.
LifecycleInOrder ==
    (tool \in RestartTools /\ pc \notin {"handler", "validate_device_id"}) =>
        /\ LifecycleSteps = SubSeq(LifecycleOrder, 1, Len(LifecycleSteps))
        /\ pc = "body" => LifecycleSteps = <<>>
        /\ pc = "primary" => Len(LifecycleSteps) = 1
        /\ pc = "sleep" => Len(LifecycleSteps) = 2
        /\ pc = "launch1" => Len(LifecycleSteps) = 3
        /\ pc = "dumpsys" => Len(LifecycleSteps) = 4
        /\ pc = "launch2" => Len(LifecycleSteps) = 5
        /\ Len(LifecycleSteps) >= 2 => locals.primary = "ok"
        /\ Len(LifecycleSteps) >= 4 => locals.l1 = "fail"
        /\ locals.l1 = "ok" => Done /\ Len(LifecycleSteps) = 3
        /\ locals.l2 = "ok" => Done /\ Len(LifecycleSteps) = 5
        /\ (Done /\ locals.primary = "ok") =>
               /\ ~IsErrorText(result)
               /\ locals.l1 = "ok" \/ locals.l2 # None

C18_PngDeletedOnFailure ==
    (Done /\ tool = "take_screenshot_and_save" /\ locals.cap = "ok"
          /\ lower(FormatArg(args)) # "png" /\ exc.raised) =>
        /\ IsErrorText(result)
        /\ locals.png \notin files

\* The events of kind "clipboard": the processes the final temp file was
\* handed to, each issued and ended before the handler goes on.
ClipboardProcesses == {i \in DOMAIN issued : issued[i].kind = "clipboard"}

\* Invocation i of the overlapping two has allocated its temp path and has
\* not ended.
InFlight(i) == tasks[i].pc \in {"spawned", "capture", "capture_failed"}

\* C19: two overlapping invocations of the clipboard capture have distinct
\* temp paths (final and PNG), and no invocation has written to or deleted
\* a file another one created.
C19_DistinctTempPaths ==
    /\ \A i, j \in Invocations :
           (i # j /\ InFlight(i) /\ InFlight(j)) =>
               /\ tasks[i].path # tasks[j].path
               /\ tasks[i].png # tasks[j].png
    /\ \A i \in Invocations : ~tasks[i].foreign

\* C20: when the capture and the conversion of the clipboard capture have
\* succeeded, the final temp file was handed to a clipboard process that
\* has ended by the time the invocation is over, the result is
\* success-shaped unless that process failed, and the file is gone.
C20_ClipboardAwaited ==
    (Done /\ tool = "take_screenshot_and_copy_to_clipboard"
          /\ locals.cap = "ok" /\ locals.conv # "fail") =>
        /\ ClipboardProcesses # {}
        /\ \A i \in ClipboardProcesses : issued[i].target = locals.path
        /\ IsErrorText(result) =>
               \E i \in ClipboardProcesses : issued[i].cmd # <<"exit 0">>
        /\ locals.path \notin files

\* The command line starts with the executable, then the device flag with
\* the identifier `id`, and has no other device flag.
HasFlag(ev, id) ==
    /\ Len(ev.cmd) >= 3
    /\ ev.cmd[1] = "adb" /\ ev.cmd[2] = "-s" /\ ev.cmd[3] = id
    /\ \A j \in 4..Len(ev.cmd) : ev.cmd[j] # "-s"

\* The command line starts with the executable and has no device flag.
NoFlag(ev) ==
    /\ ev.cmd[1] = "adb"
    /\ \A j \in DOMAIN ev.cmd : ev.cmd[j] # "-s"

\* The positions of the handler after the device resolution.
AfterResolution ==
    pc \in {"body", "execute_adb_command", "primary", "sleep", "launch1",
            "dumpsys", "launch2", "capture"}

\* C21: in a call whose device hint was resolved, the handler's device is
\* the hint from the resolution on, the device query is the first thing
\* issued, and every bridge command after it (primary action, launch
\* attempts, component query, capture, any other) starts with
\* "adb -s <that device>"; in a call with no resolved device, no command
\* has the flag.
C21_OneDeviceFlag ==
    tool \in ToolNames =>
        /\ (Truthy(args.device_id) /\ AfterResolution) =>
               device_id = args.device_id
        /\ Truthy(device_id) =>
               /\ device_id = args.device_id
               /\ issued # <<>> /\ issued[1] = DevicesQuery
               /\ \A i \in 2..Len(issued) :
                      issued[i].kind = "adb" => HasFlag(issued[i], device_id)
        /\ ~Truthy(device_id) =>
               \A i \in DOMAIN issued :
                   issued[i].kind = "adb" => NoFlag(issued[i])

\* clear_cache_and_restart on the device d1 has gone through every step:
\* its four bridge commands carry the flag.
C21_Witness ==
    /\ Done /\ tool = "clear_cache_and_restart" /\ args.device_id = "d1"
    /\ device_id = "d1"
    /\ LifecycleSteps = LifecycleOrder
    /\ \A i \in {2, 4, 5, 6} : HasFlag(issued[i], "d1")

=============================================================================
